---- MODULE Spec2Model ----
(***************************************************************************)
(* A model of concrete.ml.quantization.quantized_module.QuantizedModule:   *)
(* the quantized graph executor (forward / _forward), the input quantizer  *)
(* binding, the compilation driver (compile) and the per-sample backend    *)
(* adapter (forward_in_fhe).  Every public method is one atomic action; a  *)
(* call leaves its arguments in `call`, what it returned or raised in      *)
(* `result`, the graph nodes it invoked in `invoked` and the calls it made *)
(* to the quantizers, the compiler and the circuit in `external`.          *)
(***************************************************************************)
EXTENDS Integers, Sequences, FiniteSets, TLC

\* ------------------------------------------------------------------ bounds
\* Largest leading (sample) dimension of an array handed to a call.
MaxBatch == 2
\* Number of circuits the external compiler hands out before the model stops
\* compiling (handles are numbered 1..MaxCompiles, 0 is Python's None).
MaxCompiles == 2

\* ------------------------------------------------------------ value helpers
None == [tag |-> "None", qvalues |-> <<>>]

\* QuantizedArray(n_bits, qvalues, value_is_float=False, ...): the tensor
\* that wraps integer codes.
QuantizedArray(qvalues) == [tag |-> "QuantizedArray", qvalues |-> qvalues]

NoError == [type |-> "None", msg |-> "", got |-> 0, expected |-> 0, items |-> <<>>]

Error(type, msg, got, expected, items) ==
    [type |-> type, msg |-> msg, got |-> got, expected |-> expected, items |-> items]

\* numpy dtypes of the arrays the model hands to the module.
DTypes == {"int64", "float64"}

\* issubclass(dtype.type, numpy.integer)
IsIntegerDType(dtype) ==
    dtype \in {"int8", "int16", "int32", "int64", "uint8", "uint16", "uint32", "uint64"}

\* A variant of the lookup that finds no key.
DictGetAbsent(d, key) == None

\* dict.get(key, None)
DictGet(d, key) == IF key \in DOMAIN d THEN d[key] ELSE None

\* d[key] = value
DictSet(d, key, value) ==
    [k \in (DOMAIN d) \cup {key} |-> IF k = key THEN value ELSE d[k]]

Min(a, b) == IF a < b THEN a ELSE b

\* A variant of the pairing that binds the keys to the values in reverse.
DictZipReversed(keys, values) ==
    LET n == Min(Len(keys), Len(values))
    IN  [k \in {keys[i] : i \in 1..n} |->
            values[n + 1 - (CHOOSE i \in 1..n : keys[i] = k /\ \A j \in (i + 1)..n : keys[j] # k)]]

\* dict(zip(keys, values)): zip stops at the shorter sequence.
DictZip(keys, values) ==
    LET n == Min(Len(keys), Len(values))
    IN  [k \in {keys[i] : i \in 1..n} |->
            values[CHOOSE i \in 1..n : keys[i] = k /\ \A j \in (i + 1)..n : keys[j] # k]]

\* ------------------------------------------------------------------ graphs
\* The modules the model constructs: ordered input names, the single output
\* name and quant_layers_dict in insertion order.  Every layer carries the
\* calibrated output quantization parameters (n_bits, scale, zero_point) of
\* its operation.  "lo" in GraphClip names neither a module input nor an
\* earlier output.
GraphClip ==
    [inputs  |-> <<"x">>,
     outputs |-> <<"y">>,
     layers  |-> << [out |-> "h", ins |-> <<"x", "lo">>, op_type |-> "Clip",
                     op_instance_name |-> "clip_0",
                     output_quant_params |-> [n_bits |-> 8, scale |-> 1, zero_point |-> 0]],
                    [out |-> "y", ins |-> <<"h">>, op_type |-> "Identity",
                     op_instance_name |-> "identity_1",
                     output_quant_params |-> [n_bits |-> 8, scale |-> 1, zero_point |-> 0]] >>]

GraphAdd ==
    [inputs  |-> <<"a", "b">>,
     outputs |-> <<"y">>,
     layers  |-> << [out |-> "s", ins |-> <<"a", "b">>, op_type |-> "Add",
                     op_instance_name |-> "add_0",
                     output_quant_params |-> [n_bits |-> 8, scale |-> 2, zero_point |-> 1]],
                    [out |-> "y", ins |-> <<"s">>, op_type |-> "Identity",
                     op_instance_name |-> "identity_1",
                     output_quant_params |-> [n_bits |-> 8, scale |-> 2, zero_point |-> 1]] >>]

\* A graph of a single identity operation.
GraphIdentity ==
    [inputs  |-> <<"x">>,
     outputs |-> <<"y">>,
     layers  |-> << [out |-> "y", ins |-> <<"x">>, op_type |-> "Identity",
                     op_instance_name |-> "identity_0",
                     output_quant_params |-> [n_bits |-> 8, scale |-> 1, zero_point |-> 0]] >>]

Graphs == {GraphClip, GraphAdd, GraphIdentity}

\* The quantizers a caller may bind: (n_bits, scale, zero_point).
Quantizers ==
    { [n_bits |-> 8, scale |-> 1, zero_point |-> 0],
      [n_bits |-> 8, scale |-> 2, zero_point |-> 1] }

\* Identities of the debug_value_tracker dictionaries; 0 is None.
TrackerIds == {1, 2}

\* ------------------------------------------------------------------- state
VARIABLES
    ordered_module_input_names,   \* tuple of declared input names
    ordered_module_output_names,  \* tuple of declared output names
    quant_layers_dict,            \* sequence of nodes, in insertion order
    input_quantizers,             \* list of bound input quantizers
    output_quantizers,            \* list of output quantizers
    fhe_circuit,                  \* 0 (None) or the handle of the circuit
    debug_value_tracker,          \* per layer: 0 (None) or a tracker id
    error_tracker,                \* per layer: FALSE (None) or TRUE (a list)
    tracker_heap,                 \* tracker id -> op names recorded in it
    compiled,                     \* number of handles the compiler made
    pc,                           \* "idle" or "returned"
    call,                         \* the last call and its arguments
    result,                       \* what the last call returned or raised
    invoked,                      \* layer invocations of the last call
    external,                     \* collaborator calls made by the last call
    caller_quantizers             \* quantizer objects the caller bound and holds

modvars == <<ordered_module_input_names, ordered_module_output_names,
             quant_layers_dict, input_quantizers, output_quantizers,
             fhe_circuit, debug_value_tracker, error_tracker, tracker_heap>>

vars == <<ordered_module_input_names, ordered_module_output_names,
          quant_layers_dict, input_quantizers, output_quantizers,
          fhe_circuit, debug_value_tracker, error_tracker, tracker_heap,
          compiled, pc, call, result, invoked, external, caller_quantizers>>

NLayers == Len(quant_layers_dict)
LayerIds == 1..NLayers

NoCall == [op |-> "none"]

NoResult ==
    [status |-> "none", error |-> NoError, value |-> <<>>, handle |-> 0, tracker |-> 0,
     is_none |-> FALSE]

Returned(value, handle, tracker) ==
    [status |-> "ok", error |-> NoError, value |-> value, handle |-> handle,
     tracker |-> tracker, is_none |-> FALSE]

\* A call that returned Python's None where a value could have been returned.
ReturnedNone == [Returned(<<>>, 0, 0) EXCEPT !.is_none = TRUE]

Raised(error) ==
    [status |-> "raise", error |-> error, value |-> <<>>, handle |-> 0, tracker |-> 0,
     is_none |-> FALSE]

\* _set_output_quantizers: one quantizer per output name, built from the
\* calibrated parameters of the layer stored under that name.
SetOutputQuantizers(graph) ==
    [i \in 1..Len(graph.outputs) |->
        LET output_layer == CHOOSE l \in 1..Len(graph.layers) :
                                graph.layers[l].out = graph.outputs[i]
        IN  graph.layers[output_layer].output_quant_params]

\* __init__ with all three arguments given and a single output name.
Init ==
    \E graph \in Graphs :
        /\ ordered_module_input_names = graph.inputs
        /\ ordered_module_output_names = graph.outputs
        /\ quant_layers_dict = graph.layers
        /\ input_quantizers = <<>>
        /\ output_quantizers = SetOutputQuantizers(graph)
        /\ fhe_circuit = 0
        /\ debug_value_tracker = [l \in 1..Len(graph.layers) |-> 0]
        /\ error_tracker = [l \in 1..Len(graph.layers) |-> FALSE]
        /\ tracker_heap = [t \in TrackerIds |-> {}]
        /\ compiled = 0
        /\ pc = "idle"
        /\ call = NoCall
        /\ result = NoResult
        /\ invoked = <<>>
        /\ external = <<>>
        /\ caller_quantizers = <<>>

\* ------------------------------------------------- quantized operations
\* The behaviour of one invocation of a QuantizedOp, chosen by the
\* environment: it raises, or it returns and reports in its error_tracker
\* the (0-based) indices of the inputs that were not quantized.
RECURSIVE AscSeq(_)
AscSeq(S) ==
    IF S = {} THEN <<>>
    ELSE LET m == CHOOSE x \in S : \A y \in S : x <= y
         IN  <<m>> \o AscSeq(S \ {m})

LayerBehaviours(layer) ==
    {[raises |-> TRUE, faults |-> <<>>]} \cup
    {[raises |-> FALSE, faults |-> AscSeq(F)] : F \in SUBSET (0..(Len(layer.ins) - 1))}

Behaviours(layers) ==
    {beh \in [1..Len(layers) -> UNION {LayerBehaviours(layers[i]) : i \in 1..Len(layers)}] :
        \A i \in 1..Len(layers) : beh[i] \in LayerBehaviours(layers[i])}

\* Whether the kernel of op_type can compute on these inputs.
OpAccepts(op_type, inputs) ==
    CASE op_type = "Identity" -> TRUE
      [] op_type = "Clip" -> inputs[1] # None
      [] op_type = "Add" ->
            /\ inputs[1] # None
            /\ inputs[2] # None
            /\ Len(inputs[1].qvalues) = Len(inputs[2].qvalues)
      [] OTHER -> FALSE

\* What the kernel of op_type returns.
OpOutput(op_type, inputs) ==
    CASE op_type = "Identity" -> inputs[1]
      [] op_type = "Clip" ->
            IF inputs[2] = None THEN inputs[1]
            ELSE QuantizedArray([k \in 1..Len(inputs[1].qvalues) |->
                    IF inputs[1].qvalues[k] < inputs[2].qvalues[1]
                    THEN inputs[2].qvalues[1] ELSE inputs[1].qvalues[k]])
      [] op_type = "Add" ->
            QuantizedArray([k \in 1..Len(inputs[1].qvalues) |->
                    inputs[1].qvalues[k] + inputs[2].qvalues[k]])
      [] OTHER -> None

\* A variant of _raise_qat_import_error whose message names only the first
\* faulty tensor.
RaiseQatImportErrorFirstOnly(bad_qat_ops) ==
    Error("ValueError", "qat_import", 0, 0, <<bad_qat_ops[1]>>)

\* ------------------------------------------------------ _raise_qat_import_error
RaiseQatImportError(bad_qat_ops) ==
    Error("ValueError", "qat_import", 0, 0, bad_qat_ops)

\* --------------------------------------------------------------- _forward
\* The loop over quant_layers_dict.items(), from layer i on.  st carries
\* layer_results, bad_qat_ops, the invocation log, the layers' error_tracker
\* slots, the tracker dictionaries and whether a layer raised.
RECURSIVE ForwardLayers(_, _, _, _)
ForwardLayers(i, st, beh, dvt) ==
    IF i > NLayers THEN st
    ELSE
      LET layer   == quant_layers_dict[i]
          inputs  == [k \in 1..Len(layer.ins) |-> DictGet(st.layer_results, layer.ins[k])]
          heap1   == IF dvt[i] # 0
                     THEN [st.heap EXCEPT ![dvt[i]] = @ \cup {layer.op_instance_name}]
                     ELSE st.heap
          failed  == beh[i].raises \/ ~OpAccepts(layer.op_type, inputs)
          faults  == IF failed THEN <<>> ELSE beh[i].faults
          entry   == [layer |-> i, inputs |-> inputs, faults |-> faults, raised |-> failed]
          bad     == [k \in 1..Len(faults) |->
                        [tensor |-> layer.ins[faults[k] + 1], op_type |-> layer.op_type]]
      IN
        IF failed
        THEN [st EXCEPT !.invoked = Append(@, entry),
                        !.heap = heap1,
                        !.error_tracker[i] = TRUE,
                        !.raised = TRUE]
        ELSE ForwardLayers(i + 1,
                [st EXCEPT !.layer_results = DictSet(@, layer.out, OpOutput(layer.op_type, inputs)),
                           !.bad_qat_ops = @ \o bad,
                           !.invoked = Append(@, entry),
                           !.heap = heap1,
                           !.error_tracker[i] = FALSE],
                beh, dvt)

\* QuantizedModule._forward(*qvalues), run with the layers' debug slots dvt.
\* heap holds the tracker dictionaries.  Returns the call's result and the
\* state it leaves behind.
ForwardImpl(qvalues, beh, dvt, heap) ==
    LET n_qinputs == Len(input_quantizers)
        n_qvalues == Len(qvalues)
        st0 == [layer_results |-> <<>>, bad_qat_ops |-> <<>>, invoked |-> <<>>,
                error_tracker |-> error_tracker, heap |-> heap, raised |-> FALSE]
    IN
      IF n_qvalues # n_qinputs
      THEN [st0 EXCEPT !.raised = TRUE] @@
           [result |-> Raised(Error("TypeError", "arity", n_qvalues, n_qinputs, <<>>))]
      ELSE
        LET q_inputs == [idx \in 1..n_qinputs |-> QuantizedArray(qvalues[idx].data)]
            st == ForwardLayers(1,
                     [st0 EXCEPT !.layer_results =
                          DictZip(ordered_module_input_names, q_inputs)],
                     beh, dvt)
            outputs == [k \in 1..Len(ordered_module_output_names) |->
                           DictGet(st.layer_results, ordered_module_output_names[k])]
        IN
          IF st.raised
          THEN st @@ [result |-> Raised(Error("OpError", "layer raised", 0, 0, <<>>))]
          ELSE IF Len(st.bad_qat_ops) > 0
          THEN st @@ [result |-> Raised(RaiseQatImportError(st.bad_qat_ops))]
          ELSE IF Len(outputs) # 1 \/ outputs[1].tag # "QuantizedArray"
          THEN st @@ [result |-> Raised(Error("AssertionError", "output", 0, 0, <<>>))]
          ELSE st @@ [result |-> Returned(outputs[1].qvalues, 0, 0)]

\* ---------------------------------------------------------------- forward
\* The arrays a caller passes to forward: position k carries three samples
\* tagged with k, of the chosen dtype.
ForwardArray(k, dtype) == [dtype |-> dtype, data |-> <<3 * k - 2, 3 * k - 1, 3 * k>>]

ForwardArgs ==
    UNION { {[k \in 1..n |-> ForwardArray(k, dts[k])] : dts \in [1..n -> DTypes]} :
            n \in 0..(Len(ordered_module_input_names) + 1) }

\* A variant of invalid_inputs that stops at the first offending input.
RECURSIVE InvalidInputsFirstOnly(_, _)
InvalidInputsFirstOnly(qvalues, i) ==
    IF i > Len(qvalues) THEN <<>>
    ELSE IF IsIntegerDType(qvalues[i].dtype) THEN InvalidInputsFirstOnly(qvalues, i + 1)
    ELSE <<[idx |-> i - 1, dtype |-> qvalues[i].dtype]>>

\* invalid_inputs: the (idx, qvalue) pairs whose dtype is not an integer type.
RECURSIVE InvalidInputs(_, _)
InvalidInputs(qvalues, i) ==
    IF i > Len(qvalues) THEN <<>>
    ELSE (IF IsIntegerDType(qvalues[i].dtype) THEN <<>>
          ELSE <<[idx |-> i - 1, dtype |-> qvalues[i].dtype]>>)
         \o InvalidInputs(qvalues, i + 1)

\* A tracker dictionary no layer holds: the fresh {} of a debug call.
FreshTracker == CHOOSE t \in TrackerIds : \A l \in LayerIds : debug_value_tracker[l] # t

\* QuantizedModule.forward(*qvalues, debug)
Forward(qvalues, debug, beh) ==
    LET invalid_inputs == InvalidInputs(qvalues, 1)
    IN
    /\ pc = "idle"
    /\ pc' = "returned"
    /\ UNCHANGED caller_quantizers
    /\ call' = [op |-> "forward", qvalues |-> qvalues, debug |-> debug]
    /\ external' = <<>>
    /\ UNCHANGED <<ordered_module_input_names, ordered_module_output_names,
                   quant_layers_dict, input_quantizers, output_quantizers,
                   fhe_circuit, compiled>>
    /\ IF Len(invalid_inputs) # 0
       THEN /\ result' = Raised(Error("ValueError", "not_integer", 0, 0, invalid_inputs))
            /\ invoked' = <<>>
            /\ UNCHANGED <<debug_value_tracker, error_tracker, tracker_heap>>
       ELSE IF debug
       THEN LET t   == FreshTracker
                dvt == [l \in LayerIds |-> t]
                r   == ForwardImpl(qvalues, beh, dvt, [tracker_heap EXCEPT ![t] = {}])
            IN  /\ invoked' = r.invoked
                /\ error_tracker' = r.error_tracker
                /\ IF r.result.status = "raise"
                   THEN /\ result' = r.result
                        /\ debug_value_tracker' = dvt
                   ELSE /\ result' = [r.result EXCEPT !.tracker = t]
                        /\ debug_value_tracker' = [l \in LayerIds |-> 0]
                /\ tracker_heap' = r.heap
       ELSE LET r == ForwardImpl(qvalues, beh, debug_value_tracker, tracker_heap)
            IN  /\ invoked' = r.invoked
                /\ error_tracker' = r.error_tracker
                /\ tracker_heap' = r.heap
                /\ result' = r.result
                /\ UNCHANGED debug_value_tracker

\* ------------------------------------- set_inputs_quantization_parameters
\* A quantizer object: its parameters and its identity.  The objects a
\* caller creates have positive identities, the objects copy.deepcopy
\* creates have negative ones.
QuantizerObject(obj, q_params) ==
    [n_bits |-> q_params.n_bits, scale |-> q_params.scale,
     zero_point |-> q_params.zero_point, obj |-> obj]

\* The parameters a quantizer object holds.
Params(quantizer) ==
    [n_bits |-> quantizer.n_bits, scale |-> quantizer.scale,
     zero_point |-> quantizer.zero_point]

\* The argument lists of a caller: object i of the call holds any of the
\* parameter sets.
QuantizerArgs ==
    UNION { {[i \in 1..n |-> QuantizerObject(i, ps[i])] : ps \in [1..n -> Quantizers]} :
            n \in 0..(Len(ordered_module_input_names) + 1) }

\* A variant of the copy that returns the object it was given.
ShallowCopy(q_params) == q_params

\* copy.deepcopy of a quantizer: a new object with the same field values.
DeepCopy(q_params) == [q_params EXCEPT !.obj = -q_params.obj]

\* A variant of set_inputs_quantization_parameters that clears the list
\* before it checks the number of quantizers.
SetInputsClearsFirst(input_q_params) ==
    LET n_inputs == Len(ordered_module_input_names)
        n_values == Len(input_q_params)
    IN
    /\ pc = "idle"
    /\ pc' = "returned"
    /\ call' = [op |-> "set_inputs_quantization_parameters", input_q_params |-> input_q_params]
    /\ invoked' = <<>>
    /\ external' = <<>>
    /\ IF n_values # n_inputs
       THEN /\ result' = Raised(Error("TypeError", "arity", n_values, n_inputs, <<>>))
            /\ input_quantizers' = <<>>
            /\ UNCHANGED caller_quantizers
       ELSE /\ result' = Returned(<<>>, 0, 0)
            /\ input_quantizers' = [i \in 1..n_values |-> DeepCopy(input_q_params[i])]
            /\ caller_quantizers' = input_q_params
    /\ UNCHANGED <<ordered_module_input_names, ordered_module_output_names,
                   quant_layers_dict, output_quantizers, fhe_circuit,
                   debug_value_tracker, error_tracker, tracker_heap, compiled>>

\* A variant of set_inputs_quantization_parameters that extends the list
\* without clearing it first.
SetInputsExtendsOnly(input_q_params) ==
    LET n_inputs == Len(ordered_module_input_names)
        n_values == Len(input_q_params)
    IN
    /\ pc = "idle"
    /\ pc' = "returned"
    /\ call' = [op |-> "set_inputs_quantization_parameters", input_q_params |-> input_q_params]
    /\ invoked' = <<>>
    /\ external' = <<>>
    /\ IF n_values # n_inputs
       THEN /\ result' = Raised(Error("TypeError", "arity", n_values, n_inputs, <<>>))
            /\ UNCHANGED <<input_quantizers, caller_quantizers>>
       ELSE /\ result' = Returned(<<>>, 0, 0)
            /\ input_quantizers' =
                  input_quantizers \o [i \in 1..n_values |-> DeepCopy(input_q_params[i])]
            /\ caller_quantizers' = input_q_params
    /\ UNCHANGED <<ordered_module_input_names, ordered_module_output_names,
                   quant_layers_dict, output_quantizers, fhe_circuit,
                   debug_value_tracker, error_tracker, tracker_heap, compiled>>

\* QuantizedModule.set_inputs_quantization_parameters(*input_q_params).  The
\* caller keeps the objects it passed to a call that succeeded.
SetInputsQuantizationParameters(input_q_params) ==
    LET n_inputs == Len(ordered_module_input_names)
        n_values == Len(input_q_params)
    IN
    /\ pc = "idle"
    /\ pc' = "returned"
    /\ call' = [op |-> "set_inputs_quantization_parameters", input_q_params |-> input_q_params]
    /\ invoked' = <<>>
    /\ external' = <<>>
    /\ IF n_values # n_inputs
       THEN /\ result' = Raised(Error("TypeError", "arity", n_values, n_inputs, <<>>))
            /\ UNCHANGED <<input_quantizers, caller_quantizers>>
       ELSE /\ result' = Returned(<<>>, 0, 0)
            /\ input_quantizers' = [i \in 1..n_values |-> DeepCopy(input_q_params[i])]
            /\ caller_quantizers' = input_q_params
    /\ UNCHANGED <<ordered_module_input_names, ordered_module_output_names,
                   quant_layers_dict, output_quantizers, fhe_circuit,
                   debug_value_tracker, error_tracker, tracker_heap, compiled>>

\* The caller assigns new parameters to quantizer object i that it holds.
\* Every reference to that object sees the assignment.
CallerMutates(i, q_params) ==
    LET obj == caller_quantizers[i].obj
    IN
    /\ pc = "idle"
    /\ Params(caller_quantizers[i]) # q_params
    /\ pc' = "returned"
    /\ call' = [op |-> "caller_mutates", index |-> i, q_params |-> q_params]
    /\ result' = Returned(<<>>, 0, 0)
    /\ invoked' = <<>>
    /\ external' = <<>>
    /\ caller_quantizers' = [caller_quantizers EXCEPT ![i] = QuantizerObject(obj, q_params)]
    /\ input_quantizers' = [k \in 1..Len(input_quantizers) |->
            IF input_quantizers[k].obj = obj THEN QuantizerObject(obj, q_params)
            ELSE input_quantizers[k]]
    /\ UNCHANGED <<ordered_module_input_names, ordered_module_output_names,
                   quant_layers_dict, output_quantizers, fhe_circuit,
                   debug_value_tracker, error_tracker, tracker_heap, compiled>>

\* ---------------------------------------------------------- assert_true
\* common.debugging.assert_true(condition, on_error_msg, error_type): the
\* error type it raises when the caller passes none.
AssertTrueDefaultError == "assert_true default"

\* One call to an external collaborator, as logged in `external`.
ExtCall(fn, handle, args, ret) == [fn |-> fn, handle |-> handle, args |-> args, ret |-> ret]

\* ------------------------------------------------------------- quantizers
\* numpy.rint(n / d) for d > 0: round half to even.
RoundHalfEven(n, d) ==
    LET q == n \div d
        r == n % d
    IN  IF 2 * r < d THEN q
        ELSE IF 2 * r > d THEN q + 1
        ELSE IF q % 2 = 0 THEN q ELSE q + 1

RECURSIVE Pow2(_)
Pow2(n) == IF n = 0 THEN 1 ELSE 2 * Pow2(n - 1)

Clamp(v, lo, hi) == IF v < lo THEN lo ELSE IF v > hi THEN hi ELSE v

\* UniformQuantizer.quant(values): rint(values / scale + zero_point), kept
\* in the signed range of n_bits, as int64.
Quant(quantizer, values) ==
    [dtype |-> "int64",
     data  |-> [k \in 1..Len(values.data) |->
                  Clamp(RoundHalfEven(values.data[k], quantizer.scale) + quantizer.zero_point,
                        -Pow2(quantizer.n_bits - 1), Pow2(quantizer.n_bits - 1) - 1)]]

\* UniformQuantizer.dequant(q_values): scale * (q_values - zero_point), as
\* float64.
Dequant(quantizer, q_values) ==
    [dtype |-> "float64",
     data  |-> [k \in 1..Len(q_values.data) |->
                  quantizer.scale * (q_values.data[k] - quantizer.zero_point)]]

\* --------------------------------------------------------- quantize_input
\* numpy.array(q_values).dtype == numpy.int64: an empty tuple makes a
\* float64 array, arrays of different shapes make no int64 array (an object
\* array, or a ValueError from numpy.array in later numpy versions).
StacksToInt64(q_values) ==
    /\ Len(q_values) > 0
    /\ \A k \in 1..Len(q_values) :
          /\ q_values[k].dtype = "int64"
          /\ Len(q_values[k].data) = Len(q_values[1].data)

\* QuantizedModule.quantize_input(*values): the tuple of quantized arrays
\* (or the error) and the quantizer calls made; a quant call is logged with
\* the index of the quantizer called.
QuantizeInputImpl(values) ==
    LET n_q_inputs == Len(input_quantizers)
        n_values   == Len(values)
        q_values   == [idx \in 1..n_values |-> Quant(input_quantizers[idx], values[idx])]
        external_  == [idx \in 1..n_values |->
                         ExtCall("quant", 0, <<idx - 1, values[idx]>>, q_values[idx])]
    IN
      IF n_values # n_q_inputs
      THEN [error |-> Error("TypeError", "arity", n_values, n_q_inputs, <<>>),
            q_values |-> <<>>, external |-> <<>>]
      ELSE IF ~StacksToInt64(q_values)
      THEN [error |-> Error("AssertionError", "not int64", 0, 0, <<>>),
            q_values |-> <<>>, external |-> external_]
      ELSE [error |-> NoError, q_values |-> q_values, external |-> external_]

\* The float arrays a caller passes to quantize_input: position k carries
\* three samples tagged with k, except that input `odd` (if any) carries one.
QuantizeArgs ==
    { [k \in 1..a[1] |-> IF k = a[2] THEN [dtype |-> "float64", data |-> <<10 * k>>]
                         ELSE ForwardArray(k, "float64")] :
        a \in { b \in (0..(Len(ordered_module_input_names) + 1))
                        \X (0..(Len(ordered_module_input_names) + 1)) : b[2] <= b[1] } }

\* What a call returns for a tuple of arrays: the only array itself, or the
\* tuple.
ArrayOrTuple(arrays) == [bare |-> Len(arrays) = 1, arrays |-> arrays]

\* QuantizedModule.quantize_input(*values)
QuantizeInput(values) ==
    LET r == QuantizeInputImpl(values)
    IN
    /\ pc = "idle"
    /\ pc' = "returned"
    /\ UNCHANGED caller_quantizers
    /\ call' = [op |-> "quantize_input", values |-> values]
    /\ result' = IF r.error # NoError THEN Raised(r.error)
                 ELSE Returned(ArrayOrTuple(r.q_values), 0, 0)
    /\ external' = r.external
    /\ invoked' = <<>>
    /\ UNCHANGED <<ordered_module_input_names, ordered_module_output_names,
                   quant_layers_dict, input_quantizers, output_quantizers,
                   fhe_circuit, debug_value_tracker, error_tracker, tracker_heap,
                   compiled>>

\* ------------------------------------------------------ dequantize_output
\* QuantizedModule.dequantize_output(q_values): the dequantized array (or
\* the error) and the quantizer calls made.
DequantizeOutputImpl(q_values) ==
    LET real_values == [k \in 1..Len(output_quantizers) |->
                           Dequant(output_quantizers[k], q_values)]
        external_   == [k \in 1..Len(output_quantizers) |->
                           ExtCall("dequant", 0, <<k - 1, q_values>>, real_values[k])]
    IN  IF Len(real_values) # 1
        THEN [result |-> Raised(Error(AssertTrueDefaultError, "", 0, 0, <<>>)),
              external |-> external_]
        ELSE [result |-> Returned(real_values[1], 0, 0), external |-> external_]

\* The integer arrays a caller passes to dequantize_output.
DequantizeArgs == {ForwardArray(k, "int64") : k \in 1..2}

\* QuantizedModule.dequantize_output(q_values)
DequantizeOutput(q_values) ==
    LET r == DequantizeOutputImpl(q_values)
    IN
    /\ pc = "idle"
    /\ pc' = "returned"
    /\ UNCHANGED caller_quantizers
    /\ call' = [op |-> "dequantize_output", q_values |-> q_values]
    /\ result' = r.result
    /\ external' = r.external
    /\ invoked' = <<>>
    /\ UNCHANGED <<ordered_module_input_names, ordered_module_output_names,
                   quant_layers_dict, input_quantizers, output_quantizers,
                   fhe_circuit, debug_value_tracker, error_tracker, tracker_heap,
                   compiled>>

\* ---------------------------------------------------- forward_and_dequant
\* QuantizedModule.forward_and_dequant(*q_x): forward without debug, then
\* dequantize_output on what it returned.
ForwardAndDequant(q_x, beh) ==
    LET invalid_inputs == InvalidInputs(q_x, 1)
        r     == ForwardImpl(q_x, beh, debug_value_tracker, tracker_heap)
        q_out == [dtype |-> "int64", data |-> r.result.value]
        d     == DequantizeOutputImpl(q_out)
    IN
    /\ pc = "idle"
    /\ pc' = "returned"
    /\ UNCHANGED caller_quantizers
    /\ call' = [op |-> "forward_and_dequant", q_x |-> q_x]
    /\ UNCHANGED <<ordered_module_input_names, ordered_module_output_names,
                   quant_layers_dict, input_quantizers, output_quantizers,
                   fhe_circuit, debug_value_tracker, compiled>>
    /\ IF Len(invalid_inputs) # 0
       THEN /\ result' = Raised(Error("ValueError", "not_integer", 0, 0, invalid_inputs))
            /\ invoked' = <<>>
            /\ external' = <<>>
            /\ UNCHANGED <<error_tracker, tracker_heap>>
       ELSE /\ invoked' = r.invoked
            /\ error_tracker' = r.error_tracker
            /\ tracker_heap' = r.heap
            /\ IF r.result.status = "raise"
               THEN /\ result' = r.result
                    /\ external' = <<>>
               ELSE /\ result' = d.result
                    /\ external' = d.external

\* ------------------------------------------------- _get_inputset_generator
\* common.utils.to_tuple: a tuple is returned as it is, anything else as a
\* tuple of one element.
ToTuple(x) == IF x.bare THEN <<x.arrays[1]>> ELSE x.arrays

\* A generator over `elements`: what it has yet to yield.
Generator(elements) == [pending |-> elements]

\* next(generator): the element yielded, or StopIteration, and the generator
\* afterwards.
GeneratorNext(generator) ==
    IF Len(generator.pending) = 0
    THEN [stop |-> TRUE, value |-> <<>>, generator |-> generator]
    ELSE [stop |-> FALSE, value |-> Head(generator.pending),
          generator |-> [pending |-> Tail(generator.pending)]]

\* Iterating a generator to its end: the elements it yields and the
\* generator afterwards.
RECURSIVE Consume(_)
Consume(generator) ==
    LET n == GeneratorNext(generator)
    IN  IF n.stop THEN [items |-> <<>>, generator |-> n.generator]
        ELSE LET rest == Consume(n.generator)
             IN  [items |-> <<n.value>> \o rest.items, generator |-> rest.generator]

\* numpy.expand_dims(sample, 0) of one sample of a one-dimensional array.
ExpandDims(sample) == <<sample>>

\* A variant of _get_inputset_generator that takes the single-input branch
\* whatever the number of inputs.
GetInputsetGeneratorFirstInput(q_inputs_) ==
    LET q_inputs == ToTuple(q_inputs_)
    IN  Generator([idx \in 1..Len(q_inputs[1].data) |-> ExpandDims(q_inputs[1].data[idx])])

\* _get_inputset_generator(q_inputs): for several inputs a generator of the
\* tuples of same-index samples, for one input a generator of its samples;
\* every sample with a leading dimension of 1.  compile passes it at least
\* one input.
GetInputsetGenerator(q_inputs_) ==
    LET q_inputs == ToTuple(q_inputs_)
    IN  IF Len(q_inputs) > 1
        THEN Generator([idx \in 1..Len(q_inputs[1].data) |->
                [k \in 1..Len(q_inputs) |-> ExpandDims(q_inputs[k].data[idx])]])
        ELSE Generator([idx \in 1..Len(q_inputs[1].data) |->
                ExpandDims(q_inputs[1].data[idx])])

\* ---------------------------------------------------------------- compile
\* The float or integer arrays a caller passes to compile: sample i of
\* input k is tagged 10 * k + i.
CompileArray(k, dtype, n) == [dtype |-> dtype, data |-> [i \in 1..n |-> 10 * k + i]]

\* The tuples of arrays explored: n_inputs arrays of n samples each, except
\* that input `odd` (if any) has another length and input `int` (if any) is
\* already of an integer dtype.
CompileInputs(n_inputs, n, odd, int) ==
    [k \in 1..n_inputs |->
        CompileArray(k, IF k = int THEN "int64" ELSE "float64",
                        IF k = odd THEN (n % MaxBatch) + 1 ELSE n)]

CompileArgs ==
    { CompileInputs(a[1], a[2], a[3], a[4]) :
        a \in { b \in (0..(Len(ordered_module_input_names) + 1)) \X (1..MaxBatch)
                        \X (0..(Len(ordered_module_input_names) + 1))
                        \X (0..(Len(ordered_module_input_names) + 1)) :
                    b[3] <= b[1] /\ b[4] <= b[1] } }

\* A Configuration object (or None, when present is FALSE) with its p_error
\* and global_p_error options; "None" stands for an option left unset.
Probabilities == {"None", "set"}

Configurations ==
    { [present |-> FALSE, p_error |-> "None", global_p_error |-> "None"],
      [present |-> TRUE,  p_error |-> "None", global_p_error |-> "None"],
      [present |-> TRUE,  p_error |-> "set",  global_p_error |-> "None"],
      [present |-> TRUE,  p_error |-> "None", global_p_error |-> "set"] }

\* common.utils.check_there_is_no_p_error_options_in_configuration: fails
\* when the configuration object carries an error-probability option.
CheckThereIsNoPErrorOptionsInConfiguration(configuration) ==
    IF configuration.present
       /\ (configuration.p_error # "None" \/ configuration.global_p_error # "None")
    THEN Error(AssertTrueDefaultError, "p_error_in_configuration", 0, 0, <<>>)
    ELSE NoError

\* common.utils.manage_parameters_for_pbs_errors: the two probabilities are
\* mutually exclusive; when neither is given the defaults are substituted.
ManageParametersForPbsErrors(p_error, global_p_error) ==
    IF p_error # "None" /\ global_p_error # "None"
    THEN [error |-> Error("ValueError", "both_p_errors", 0, 0, <<>>),
          p_error |-> p_error, global_p_error |-> global_p_error]
    ELSE IF p_error = "None" /\ global_p_error = "None"
    THEN [error |-> NoError, p_error |-> "default", global_p_error |-> "None"]
    ELSE [error |-> NoError, p_error |-> p_error, global_p_error |-> global_p_error]

\* A variant of compile's input checks without the check for inputs that
\* are already integers.
CompilePreconditionsNoDtype(inputs) ==
    IF Len(inputs) = 0
    THEN Error("IndexError", "inputs[0]", 0, 0, <<>>)
    ELSE IF \E k \in 1..Len(inputs) : Len(inputs[k].data) # Len(inputs[1].data)
    THEN Error(AssertTrueDefaultError, "Mismatched dataset lengths", 0, 0, <<>>)
    ELSE NoError

\* The checks compile makes on its inputs before anything else.
CompilePreconditions(inputs) ==
    IF Len(inputs) = 0
    THEN Error("IndexError", "inputs[0]", 0, 0, <<>>)
    ELSE IF \E k \in 1..Len(inputs) : Len(inputs[k].data) # Len(inputs[1].data)
    THEN Error(AssertTrueDefaultError, "Mismatched dataset lengths", 0, 0, <<>>)
    ELSE IF \E k \in 1..Len(inputs) : IsIntegerDType(inputs[k].dtype)
    THEN Error("AssertionError", "already quantized", 0, 0, <<>>)
    ELSE NoError

\* A variant of the resolution that never looks at the configuration object.
CompileErrorProbabilitiesUnchecked(configuration, p_error, global_p_error) ==
    ManageParametersForPbsErrors(p_error, global_p_error)

\* The resolution of the error probabilities: the configuration object must
\* carry none, then the direct arguments are defaulted.
CompileErrorProbabilities(configuration, p_error, global_p_error) ==
    LET conf == CheckThereIsNoPErrorOptionsInConfiguration(configuration)
        pbs  == ManageParametersForPbsErrors(p_error, global_p_error)
    IN  IF conf # NoError THEN [pbs EXCEPT !.error = conf] ELSE pbs

\* A variant of the assignment that keeps a circuit the module already has.
StoreCircuitOnce(old_circuit, new_circuit) ==
    IF old_circuit # 0 THEN old_circuit ELSE new_circuit

\* self.fhe_circuit = compiler.compile(...): the field after the assignment.
StoreCircuit(old_circuit, new_circuit) == new_circuit

\* Where compile stops: the first failing step, in the order of the code.
CompileImpl(inputs, configuration, p_error, global_p_error, compiler_raises) ==
    LET pre    == CompilePreconditions(inputs)
        ctor   == ExtCall("Compiler", 0, ordered_module_input_names, 0)
        q      == QuantizeInputImpl(inputs)
        pbs    == CompileErrorProbabilities(configuration, p_error, global_p_error)
        handle == compiled + 1
        stored == StoreCircuit(fhe_circuit, handle)
        inputset == GetInputsetGenerator(ArrayOrTuple(q.q_values))
        drawn    == Consume(inputset)
    IN
      IF pre # NoError
      THEN [result |-> Raised(pre), external |-> <<>>, fhe_circuit |-> fhe_circuit]
      ELSE IF q.error # NoError
      THEN [result |-> Raised(q.error),
            external |-> <<ctor>>, fhe_circuit |-> fhe_circuit]
      ELSE IF pbs.error # NoError
      THEN [result |-> Raised(pbs.error),
            external |-> <<ctor>> \o q.external, fhe_circuit |-> fhe_circuit]
      ELSE IF compiler_raises
      THEN [result |-> Raised(Error("CompilerError", "compile raised", 0, 0, <<>>)),
            external |-> <<ctor>> \o q.external \o
                <<ExtCall("compile", 0, <<drawn.items, pbs.p_error, pbs.global_p_error,
                                          drawn.generator>>, 0)>>,
            fhe_circuit |-> fhe_circuit]
      ELSE [result |-> Returned(<<>>, stored, 0),
            external |-> <<ctor>> \o q.external \o
                <<ExtCall("compile", 0, <<drawn.items, pbs.p_error, pbs.global_p_error,
                                          drawn.generator>>, handle)>>,
            fhe_circuit |-> stored]

\* A variant of compile that drops the circuit it holds before it starts.
CompileDropsCircuitFirst(inputs, configuration, p_error, global_p_error, compiler_raises) ==
    LET r == CompileImpl(inputs, configuration, p_error, global_p_error, compiler_raises)
    IN
    /\ pc = "idle"
    /\ compiled < MaxCompiles
    /\ pc' = "returned"
    /\ UNCHANGED caller_quantizers
    /\ call' = [op |-> "compile", inputs |-> inputs, configuration |-> configuration,
                p_error |-> p_error, global_p_error |-> global_p_error]
    /\ result' = r.result
    /\ external' = r.external
    /\ invoked' = <<>>
    /\ fhe_circuit' = IF r.result.status = "ok" THEN r.fhe_circuit ELSE 0
    /\ compiled' = IF r.result.status = "ok" THEN compiled + 1 ELSE compiled
    /\ UNCHANGED <<ordered_module_input_names, ordered_module_output_names,
                   quant_layers_dict, input_quantizers, output_quantizers,
                   debug_value_tracker, error_tracker, tracker_heap>>

\* QuantizedModule.compile(inputs, configuration, p_error, global_p_error)
Compile(inputs, configuration, p_error, global_p_error, compiler_raises) ==
    LET r == CompileImpl(inputs, configuration, p_error, global_p_error, compiler_raises)
    IN
    /\ pc = "idle"
    /\ compiled < MaxCompiles
    /\ pc' = "returned"
    /\ UNCHANGED caller_quantizers
    /\ call' = [op |-> "compile", inputs |-> inputs, configuration |-> configuration,
                p_error |-> p_error, global_p_error |-> global_p_error]
    /\ result' = r.result
    /\ external' = r.external
    /\ invoked' = <<>>
    /\ fhe_circuit' = r.fhe_circuit
    /\ compiled' = IF r.result.status = "ok" THEN compiled + 1 ELSE compiled
    /\ UNCHANGED <<ordered_module_input_names, ordered_module_output_names,
                   quant_layers_dict, input_quantizers, output_quantizers,
                   debug_value_tracker, error_tracker, tracker_heap>>

\* -------------------------------------------------- check_model_is_compiled
CheckModelIsCompiled ==
    /\ pc = "idle"
    /\ pc' = "returned"
    /\ UNCHANGED caller_quantizers
    /\ call' = [op |-> "check_model_is_compiled"]
    /\ result' = IF fhe_circuit = 0
                 THEN Raised(Error("AttributeError", "not compiled", 0, 0, <<>>))
                 ELSE Returned(<<>>, 0, 0)
    /\ invoked' = <<>>
    /\ external' = <<>>
    /\ UNCHANGED <<ordered_module_input_names, ordered_module_output_names,
                   quant_layers_dict, input_quantizers, output_quantizers,
                   fhe_circuit, debug_value_tracker, error_tracker, tracker_heap,
                   compiled>>

\* ---------------------------------------------------------- forward_in_fhe
\* The integer arrays a caller passes to forward_in_fhe: sample i (0-based)
\* of input k is tagged 10 * k + i.
FheArray(k, n) == [dtype |-> "int64", data |-> [i \in 1..n |-> 10 * k + (i - 1)]]

\* The tuples of arrays explored: n_inputs arrays of n samples each, except
\* that input `odd` (if any) has another length.
FheInputs(n_inputs, n, odd) ==
    [k \in 1..n_inputs |->
        FheArray(k, IF k = odd THEN (n + 1) % (MaxBatch + 1) ELSE n)]

FheArgs ==
    { FheInputs(a[1], a[2], a[3]) :
        a \in { b \in (0..(Len(ordered_module_input_names) + 1)) \X (0..MaxBatch)
                        \X (0..(Len(ordered_module_input_names) + 1)) :
                    b[3] <= b[1] } }

\* What circuit `handle` computes on one sample (a tuple with one 1-sample
\* array per input); Circuit.simulate and Circuit.encrypt_run_decrypt agree
\* on it.  The result is a 1-sample array.
RECURSIVE SumFirst(_, _)
SumFirst(q_value, k) ==
    IF k > Len(q_value) THEN 0 ELSE q_value[k][1] + SumFirst(q_value, k + 1)

CircuitRun(handle, q_value) == <<100 * handle + SumFirst(q_value, 1)>>

\* numpy.concatenate(arrays, axis=0)
RECURSIVE Concatenate(_, _)
Concatenate(arrays, i) ==
    IF i > Len(arrays) THEN <<>> ELSE arrays[i] \o Concatenate(arrays, i + 1)

\* A variant of the dispatch that simulates whatever the flag says.
CircuitCallAlwaysSimulate(simulate) == "simulate"

\* The circuit method the loop calls for one sample.
CircuitCall(simulate) == IF simulate THEN "simulate" ELSE "encrypt_run_decrypt"

\* The per-sample loop from sample i (1-based) on; st carries the results
\* list, the circuit calls and the error that stopped the loop.
RECURSIVE FheLoop(_, _, _, _)
FheLoop(qvalues, simulate, i, st) ==
    IF i > Len(qvalues[1].data) THEN st
    ELSE IF \E k \in 1..Len(qvalues) : i > Len(qvalues[k].data)
    THEN [st EXCEPT !.error = Error("IndexError", "qvalues[input][[i]]", 0, 0, <<>>)]
    ELSE
      LET q_value == [k \in 1..Len(qvalues) |-> <<qvalues[k].data[i]>>]
          fn      == CircuitCall(simulate)
      IN  IF Len(q_value) # Len(ordered_module_input_names)
          THEN [st EXCEPT !.error = Error("CircuitError", "circuit arity", 0, 0, <<>>),
                          !.external = Append(@, ExtCall(fn, fhe_circuit, q_value, <<>>))]
          ELSE FheLoop(qvalues, simulate, i + 1,
                  [st EXCEPT !.results = Append(@, CircuitRun(fhe_circuit, q_value)),
                             !.external = Append(@, ExtCall(fn, fhe_circuit, q_value,
                                                    CircuitRun(fhe_circuit, q_value)))])

\* A variant of forward_in_fhe without the check that a circuit exists.
ForwardInFheUnchecked(qvalues, simulate) ==
    IF Len(qvalues) = 0
    THEN [result |-> Raised(Error("IndexError", "qvalues[0]", 0, 0, <<>>)),
          external |-> <<>>]
    ELSE
      LET st == FheLoop(qvalues, simulate, 1,
                        [results |-> <<>>, external |-> <<>>, error |-> NoError])
      IN  IF st.error # NoError
          THEN [result |-> Raised(st.error), external |-> st.external]
          ELSE [result |-> Returned(Concatenate(st.results, 1), 0, 0),
                external |-> st.external]

\* QuantizedModule.forward_in_fhe(*qvalues, simulate): what it returns or
\* raises and the circuit calls it makes.
ForwardInFheImpl(qvalues, simulate) ==
    IF fhe_circuit = 0
    THEN [result |-> Raised(Error(AssertTrueDefaultError, "not compiled", 0, 0, <<>>)),
          external |-> <<>>]
    ELSE IF Len(qvalues) = 0
    THEN [result |-> Raised(Error("IndexError", "qvalues[0]", 0, 0, <<>>)),
          external |-> <<>>]
    ELSE
      LET st == FheLoop(qvalues, simulate, 1,
                        [results |-> <<>>, external |-> <<>>, error |-> NoError])
      IN  IF st.error # NoError
          THEN [result |-> Raised(st.error), external |-> st.external]
          ELSE IF Len(st.results) = 0
          THEN [result |-> Raised(Error("ValueError",
                                        "need at least one array to concatenate", 0, 0, <<>>)),
                external |-> st.external]
          ELSE [result |-> Returned(Concatenate(st.results, 1), 0, 0),
                external |-> st.external]

\* QuantizedModule.forward_in_fhe(*qvalues, simulate)
ForwardInFhe(qvalues, simulate) ==
    LET r == ForwardInFheImpl(qvalues, simulate)
    IN
    /\ pc = "idle"
    /\ pc' = "returned"
    /\ UNCHANGED caller_quantizers
    /\ call' = [op |-> "forward_in_fhe", qvalues |-> qvalues, simulate |-> simulate]
    /\ result' = r.result
    /\ external' = r.external
    /\ invoked' = <<>>
    /\ UNCHANGED <<ordered_module_input_names, ordered_module_output_names,
                   quant_layers_dict, input_quantizers, output_quantizers,
                   fhe_circuit, debug_value_tracker, error_tracker, tracker_heap,
                   compiled>>

\* ------------------------------------------------ bitwidth_and_range_report
\* What the compiled graph answers for one op's tag pattern, chosen by the
\* environment: integer_range gives a range or None (present FALSE), and
\* maximum_integer_bit_width gives a bit-width (negative when no node
\* matches) or None (has_bitwidth FALSE).
GraphAnswers ==
    { [present |-> FALSE, range |-> <<0, 0>>,  has_bitwidth |-> TRUE,  bitwidth |-> -1],
      [present |-> TRUE,  range |-> <<0, 15>>, has_bitwidth |-> TRUE,  bitwidth |-> 4],
      [present |-> TRUE,  range |-> <<0, 15>>, has_bitwidth |-> TRUE,  bitwidth |-> -1],
      [present |-> FALSE, range |-> <<0, 0>>,  has_bitwidth |-> TRUE,  bitwidth |-> 4],
      [present |-> TRUE,  range |-> <<0, 15>>, has_bitwidth |-> FALSE, bitwidth |-> 0],
      [present |-> FALSE, range |-> <<0, 0>>,  has_bitwidth |-> FALSE, bitwidth |-> 0] }

\* value_range is not None and bitwidth >= 0
ReportIncludes(ans) == ans.present /\ ans.bitwidth >= 0

\* The loop over quant_layers_dict.values(), from layer i on.
RECURSIVE ReportLayers(_, _, _)
ReportLayers(i, answers, st) ==
    IF i > NLayers THEN st
    ELSE
      LET op_inst == quant_layers_dict[i]
          ans     == answers[i]
          pattern == <<op_inst.op_instance_name, "(\\..*)?">>
          queries == << ExtCall("integer_range", fhe_circuit, pattern,
                                IF ans.present THEN ans.range ELSE <<>>),
                        ExtCall("maximum_integer_bit_width", fhe_circuit, pattern,
                                IF ans.has_bitwidth THEN <<ans.bitwidth>> ELSE <<>>) >>
          entry   == [name |-> op_inst.op_instance_name, range |-> ans.range,
                      bitwidth |-> ans.bitwidth]
      IN  IF ans.present /\ ~ans.has_bitwidth
          THEN \* None >= 0
               [st EXCEPT !.external = @ \o queries,
                          !.error = Error("TypeError", "'>=' not supported", 0, 0, <<>>)]
          ELSE ReportLayers(i + 1, answers,
                  [st EXCEPT !.external = @ \o queries,
                             !.report = IF ReportIncludes(ans)
                                        THEN Append(@, entry) ELSE @])

BitwidthAndRangeReport(answers) ==
    LET st == ReportLayers(1, answers,
                           [external |-> <<>>, report |-> <<>>, error |-> NoError])
    IN
    /\ pc = "idle"
    /\ pc' = "returned"
    /\ UNCHANGED caller_quantizers
    /\ call' = [op |-> "bitwidth_and_range_report", answers |-> answers]
    /\ invoked' = <<>>
    /\ IF fhe_circuit = 0
       THEN /\ result' = ReturnedNone
            /\ external' = <<>>
       ELSE /\ result' = IF st.error # NoError THEN Raised(st.error)
                         ELSE Returned(st.report, 0, 0)
            /\ external' = st.external
    /\ UNCHANGED <<ordered_module_input_names, ordered_module_output_names,
                   quant_layers_dict, input_quantizers, output_quantizers,
                   fhe_circuit, debug_value_tracker, error_tracker, tracker_heap,
                   compiled>>

\* ---------------------------------------------------------------- __init__
\* An argument of the constructor: given FALSE is Python's None (the
\* default), given TRUE with an empty value is an empty tuple or dict.
NotGiven == [given |-> FALSE, value |-> <<>>]

Given(value) == [given |-> TRUE, value |-> value]

CtorInputNames == {NotGiven, Given(<<>>), Given(<<"x">>), Given(<<"a", "b">>)}

\* "z" is the output name of no layer.
CtorOutputNames ==
    {NotGiven, Given(<<>>), Given(<<"y">>), Given(<<"h">>), Given(<<"z">>),
     Given(<<"y", "h">>)}

CtorLayers ==
    {NotGiven, Given(<<>>), Given(GraphClip.layers), Given(GraphAdd.layers),
     Given(GraphIdentity.layers)}

\* bool(argument): None and empty containers are falsy.
Truthy(arg) == arg.given /\ Len(arg.value) > 0

\* Where __init__ stops once all three arguments are truthy: the single
\* output check, then the lookup of each output name in quant_layers_dict.
InitError(output_names, layers) ==
    IF Len(output_names) # 1
    THEN Error(AssertTrueDefaultError, "single output", Len(output_names), 1, <<>>)
    ELSE IF \E k \in 1..Len(output_names) :
              \A l \in 1..Len(layers) : layers[l].out # output_names[k]
    THEN Error("KeyError", "quant_layers_dict[output_name]", 0, 0, <<>>)
    ELSE NoError

\* QuantizedModule.__init__(ordered_module_input_names,
\*                          ordered_module_output_names, quant_layers_dict).
\* Attributes the constructor has not assigned are left empty.
QuantizedModuleInit(input_names, output_names, layers) ==
    LET skip  == ~(Truthy(input_names) /\ Truthy(output_names) /\ Truthy(layers))
        error == InitError(output_names.value, layers.value)
        built == ~skip /\ error = NoError
    IN
    /\ pc = "new"
    /\ pc' = "returned"
    /\ UNCHANGED caller_quantizers
    /\ call' = [op |-> "__init__", ordered_module_input_names |-> input_names,
                ordered_module_output_names |-> output_names,
                quant_layers_dict |-> layers]
    /\ fhe_circuit' = 0
    /\ input_quantizers' = <<>>
    /\ ordered_module_input_names' = IF skip THEN <<>> ELSE input_names.value
    /\ ordered_module_output_names' = IF skip THEN <<>> ELSE output_names.value
    /\ quant_layers_dict' = IF built THEN layers.value ELSE <<>>
    /\ output_quantizers' =
          IF built
          THEN SetOutputQuantizers([outputs |-> output_names.value, layers |-> layers.value])
          ELSE <<>>
    /\ debug_value_tracker' = [l \in 1..(IF built THEN Len(layers.value) ELSE 0) |-> 0]
    /\ error_tracker' = [l \in 1..(IF built THEN Len(layers.value) ELSE 0) |-> FALSE]
    /\ result' = IF skip \/ error = NoError THEN Returned(<<>>, 0, 0) ELSE Raised(error)
    /\ invoked' = <<>>
    /\ external' = <<>>
    /\ UNCHANGED <<tracker_heap, compiled>>

\* ------------------------------------------------------------ the caller
\* The caller takes the returned value or the exception and drops the call
\* frame; tracker dictionaries that nothing references any more are freed.
Discard ==
    /\ pc = "returned"
    /\ pc' = "idle"
    /\ UNCHANGED caller_quantizers
    /\ call' = NoCall
    /\ result' = NoResult
    /\ invoked' = <<>>
    /\ external' = <<>>
    /\ tracker_heap' = [t \in TrackerIds |->
            IF \E l \in LayerIds : debug_value_tracker[l] = t THEN tracker_heap[t] ELSE {}]
    /\ UNCHANGED <<ordered_module_input_names, ordered_module_output_names,
                   quant_layers_dict, input_quantizers, output_quantizers,
                   fhe_circuit, debug_value_tracker, error_tracker, compiled>>

\* ----------------------------------------------------------- specification
DoForward ==
    \E qvalues \in ForwardArgs, debug \in BOOLEAN, beh \in Behaviours(quant_layers_dict) :
        Forward(qvalues, debug, beh)

DoSetInputs ==
    \E input_q_params \in QuantizerArgs : SetInputsQuantizationParameters(input_q_params)

DoCallerMutates ==
    \E i \in 1..Len(caller_quantizers), q_params \in Quantizers : CallerMutates(i, q_params)

DoQuantizeInput ==
    \E values \in QuantizeArgs : QuantizeInput(values)

DoDequantizeOutput ==
    \E q_values \in DequantizeArgs : DequantizeOutput(q_values)

DoForwardAndDequant ==
    \E q_x \in ForwardArgs, beh \in Behaviours(quant_layers_dict) :
        ForwardAndDequant(q_x, beh)

DoCompile ==
    \E inputs \in CompileArgs, configuration \in Configurations,
       p_error \in Probabilities, global_p_error \in Probabilities,
       compiler_raises \in BOOLEAN :
        Compile(inputs, configuration, p_error, global_p_error, compiler_raises)

DoForwardInFhe ==
    \E qvalues \in FheArgs, simulate \in BOOLEAN : ForwardInFhe(qvalues, simulate)

DoReport ==
    \E answers \in [LayerIds -> GraphAnswers] : BitwidthAndRangeReport(answers)

\* Every operation of the module.
Next ==
    \/ DoForward
    \/ DoSetInputs
    \/ DoQuantizeInput
    \/ DoDequantizeOutput
    \/ DoForwardAndDequant
    \/ DoCompile
    \/ DoForwardInFhe
    \/ CheckModelIsCompiled
    \/ DoReport
    \/ Discard

Spec == Init /\ [][Next]_vars

\* The graph executor: binding input quantizers, quantizing, running forward
\* passes and dequantizing.
NextExec ==
    \/ DoForward
    \/ DoSetInputs
    \/ DoQuantizeInput
    \/ DoDequantizeOutput
    \/ DoForwardAndDequant
    \/ Discard

SpecExec == Init /\ [][NextExec]_vars

\* The compilation driver and the backend adapter: binding input quantizers,
\* compiling, running in FHE or simulation, and reporting.
NextFhe ==
    \/ DoSetInputs
    \/ DoCompile
    \/ DoForwardInFhe
    \/ CheckModelIsCompiled
    \/ DoReport
    \/ Discard

SpecFhe == Init /\ [][NextFhe]_vars

\* Construction: no module object exists yet.
InitNew ==
    /\ ordered_module_input_names = <<>>
    /\ ordered_module_output_names = <<>>
    /\ quant_layers_dict = <<>>
    /\ input_quantizers = <<>>
    /\ output_quantizers = <<>>
    /\ fhe_circuit = 0
    /\ debug_value_tracker = <<>>
    /\ error_tracker = <<>>
    /\ tracker_heap = [t \in TrackerIds |-> {}]
    /\ compiled = 0
    /\ pc = "new"
    /\ call = NoCall
    /\ result = NoResult
    /\ invoked = <<>>
    /\ external = <<>>
    /\ caller_quantizers = <<>>

DoInit ==
    \E input_names \in CtorInputNames, output_names \in CtorOutputNames,
       layers \in CtorLayers :
        QuantizedModuleInit(input_names, output_names, layers)

\* __init__ ran to its end: every attribute is assigned.
FullyConstructed == Len(quant_layers_dict) > 0

\* A constructor that raised leaves no object behind to call.
InitRaised == call.op = "__init__" /\ result.status = "raise"

NewDiscard == ~InitRaised /\ Discard

\* Binding quantizers reads ordered_module_input_names, which only a full
\* construction assigns; the caller binds on fully constructed modules.
NewSetInputs == FullyConstructed /\ DoSetInputs

\* A module from its construction on: the constructor, then the operations
\* that need no circuit.
NextNew ==
    \/ DoInit
    \/ NewSetInputs
    \/ CheckModelIsCompiled
    \/ DoReport
    \/ NewDiscard

SpecNew == InitNew /\ [][NextNew]_vars

\* The input quantizers and their owners: the caller binds quantizers,
\* changes the objects it holds, and quantizes through the module.
NextBind ==
    \/ DoSetInputs
    \/ DoCallerMutates
    \/ DoQuantizeInput
    \/ Discard

SpecBind == Init /\ [][NextBind]_vars

\* Every layer returns and reports all its inputs as quantized.
Quiet == [l \in LayerIds |-> [raises |-> FALSE, faults |-> <<>>]]

NoConfiguration == [present |-> FALSE, p_error |-> "None", global_p_error |-> "None"]

QuietForward ==
    \E qvalues \in ForwardArgs, debug \in BOOLEAN : Forward(qvalues, debug, Quiet)

QuietForwardAndDequant ==
    \E q_x \in ForwardArgs : ForwardAndDequant(q_x, Quiet)

PlainCompile ==
    \E inputs \in CompileArgs : Compile(inputs, NoConfiguration, "None", "None", FALSE)

\* Every operation of the module in one life of a module, with layers that
\* report no fault and compilations that use the default error
\* probabilities.
NextLife ==
    \/ DoSetInputs
    \/ DoQuantizeInput
    \/ QuietForward
    \/ DoDequantizeOutput
    \/ QuietForwardAndDequant
    \/ PlainCompile
    \/ DoForwardInFhe
    \/ CheckModelIsCompiled
    \/ DoReport
    \/ Discard

SpecLife == Init /\ [][NextLife]_vars

PlainForward ==
    \E qvalues \in ForwardArgs : Forward(qvalues, FALSE, Quiet)

\* The circuit handle over the life of a module: compilations with every
\* kind of argument, successful or not, among the other operations of the
\* module, with layers that report no fault.
NextHandle ==
    \/ DoSetInputs
    \/ DoQuantizeInput
    \/ PlainForward
    \/ DoDequantizeOutput
    \/ DoCompile
    \/ DoForwardInFhe
    \/ DoReport
    \/ Discard

SpecHandle == Init /\ [][NextHandle]_vars

\* ===================================================================
\* Properties
\* ===================================================================
ForwardReturned == pc = "returned" /\ call.op = "forward"

AllIntegral(qvalues) == \A k \in 1..Len(qvalues) : IsIntegerDType(qvalues[k].dtype)

\* The (tensor name, operation type) pairs the invoked layers reported, in
\* the order of the invocations.
RECURSIVE ReportedFaults(_)
ReportedFaults(i) ==
    IF i > Len(invoked) THEN <<>>
    ELSE LET layer == quant_layers_dict[invoked[i].layer]
         IN  [k \in 1..Len(invoked[i].faults) |->
                [tensor |-> layer.ins[invoked[i].faults[k] + 1], op_type |-> layer.op_type]]
             \o ReportedFaults(i + 1)

\* A forward call that reached the loop over the layers and in which no
\* layer raised.
ForwardRanLayers ==
    /\ ForwardReturned
    /\ AllIntegral(call.qvalues)
    /\ Len(call.qvalues) = Len(input_quantizers)
    /\ \A i \in 1..Len(invoked) : ~invoked[i].raised

\* C1: in one forward call every layer is invoked, in graph order, also after
\* an earlier layer reported QAT faults; if any fault was reported the call
\* fails, after the last layer, with one ValueError listing every reported
\* (tensor name, operation type) pair in graph order; if none was reported no
\* QAT failure is raised.
C1_QatFaultsAggregated ==
    ForwardRanLayers =>
        /\ Len(invoked) = NLayers
        /\ \A i \in 1..Len(invoked) : invoked[i].layer = i
        /\ ReportedFaults(1) # <<>> =>
              /\ result.status = "raise"
              /\ result.error.type = "ValueError"
              /\ result.error.msg = "qat_import"
              /\ result.error.items = ReportedFaults(1)
        /\ ReportedFaults(1) = <<>> => result.error.msg # "qat_import"

\* Both layers of the graph reported faults and the single failure lists them.
C1_Witness ==
    /\ ForwardRanLayers
    /\ Len(invoked) = 2
    /\ invoked[1].faults # <<>>
    /\ invoked[2].faults # <<>>
    /\ result.error.msg = "qat_import"
    /\ Len(result.error.items) >= 2

\* The 0-based positions of the non-integer arrays of a forward call.
Offending(qvalues) == {k - 1 : k \in {j \in 1..Len(qvalues) : ~IsIntegerDType(qvalues[j].dtype)}}

\* C2: forward raises the non-integer-input ValueError exactly when some
\* input has a non-integer dtype; the message lists every offending position
\* with its dtype, once, and no integral position; no layer has been invoked.
C2_NonIntegerInputs ==
    ForwardReturned =>
        /\ (result.status = "raise" /\ result.error.msg = "not_integer")
              <=> Offending(call.qvalues) # {}
        /\ Offending(call.qvalues) # {} =>
              /\ result.error.type = "ValueError"
              /\ Len(result.error.items) = Cardinality(Offending(call.qvalues))
              /\ {result.error.items[k].idx : k \in 1..Len(result.error.items)}
                    = Offending(call.qvalues)
              /\ \A k \in 1..Len(result.error.items) :
                    result.error.items[k].dtype
                        = call.qvalues[result.error.items[k].idx + 1].dtype
              /\ invoked = <<>>

\* A call with an integral and two non-integral inputs.
C2_Witness ==
    /\ ForwardReturned
    /\ Len(call.qvalues) = 3
    /\ Offending(call.qvalues) = {0, 2}
    /\ result.error.msg = "not_integer"

FheReturned == pc = "returned" /\ call.op = "forward_in_fhe"

\* A forward_in_fhe call on a compiled module with one array per declared
\* input, all of the same number of samples.
FheBatchCall ==
    /\ FheReturned
    /\ fhe_circuit # 0
    /\ Len(call.qvalues) = Len(ordered_module_input_names)
    /\ \A k \in 1..Len(call.qvalues) :
          Len(call.qvalues[k].data) = Len(call.qvalues[1].data)

\* C3: forward_in_fhe on a batch of n samples makes exactly n circuit calls,
\* the i-th on sample i of every input, and returns the n per-sample results
\* concatenated in that order, for every n including n = 0.
C3_BatchAligned ==
    FheBatchCall =>
        LET n == Len(call.qvalues[1].data)
        IN  /\ result.status = "ok"
            /\ Len(external) = n
            /\ \A i \in 1..Len(external) :
                  external[i].args = [k \in 1..Len(call.qvalues) |-> <<call.qvalues[k].data[i]>>]
            /\ Len(result.value) = n
            /\ \A i \in 1..Len(external) : <<result.value[i]>> = external[i].ret

\* The error types that say "the module is in the wrong state": the
\* AttributeError of check_model_is_compiled and assert_true's default.
StateErrorTypes == {"AttributeError", AssertTrueDefaultError}

\* C4: while fhe_circuit is None, forward_in_fhe (in either mode) fails with
\* the not-compiled state error, calls no collaborator and changes nothing
\* of the module; check_model_is_compiled fails with the not-compiled state
\* error exactly when fhe_circuit is None.
C4_NotCompiledGate ==
    [][ /\ (pc = "idle" /\ call'.op = "forward_in_fhe" /\ fhe_circuit = 0) =>
              /\ result'.status = "raise"
              /\ result'.error.type \in StateErrorTypes
              /\ result'.error.msg = "not compiled"
              /\ external' = <<>>
              /\ modvars' = modvars
        /\ (pc = "idle" /\ call'.op = "check_model_is_compiled") =>
              /\ (fhe_circuit = 0) <=>
                    /\ result'.status = "raise"
                    /\ result'.error.type \in StateErrorTypes
                    /\ result'.error.msg = "not compiled"
              /\ (fhe_circuit # 0) <=> result'.status = "ok"
      ]_vars

CompileReturned == pc = "returned" /\ call.op = "compile"

\* forward_in_fhe refused a full batch on a module whose quantizers are bound
\* but which holds no circuit.
C4_Witness ==
    /\ FheReturned
    /\ fhe_circuit = 0
    /\ input_quantizers # <<>>
    /\ Len(call.qvalues) = Len(ordered_module_input_names)
    /\ Len(call.qvalues[1].data) = MaxBatch
    /\ result.error.msg = "not compiled"

\* C5: after a forward call with debug=True has ended, by return or by any
\* failure, no layer still holds a debug_value_tracker.
C5_DebugTrackerCleared ==
    (ForwardReturned /\ call.debug) => \A l \in LayerIds : debug_value_tracker[l] = 0

\* The caller set an error probability directly and the configuration object
\* carries one too.
ConfigConflict(c) ==
    /\ c.configuration.present
    /\ (c.configuration.p_error # "None" \/ c.configuration.global_p_error # "None")
    /\ (c.p_error # "None" \/ c.global_p_error # "None")

\* A compile call, otherwise well formed, with conflicting error
\* probabilities.
ConflictingCompile(c) ==
    /\ c.op = "compile"
    /\ ConfigConflict(c)
    /\ Len(c.inputs) >= 1
    /\ \A k \in 1..Len(c.inputs) :
          /\ Len(c.inputs[k].data) = Len(c.inputs[1].data)
          /\ ~IsIntegerDType(c.inputs[k].dtype)
    /\ Len(c.inputs) = Len(input_quantizers)

\* C6 as stated: a compile call with conflicting error probabilities fails
\* with the configuration-conflict error before the compiler object is
\* constructed and before its compile is called, the handle left as it was.
C6_ConflictBeforeAnyCompilerUse ==
    [][ (pc = "idle" /\ ConflictingCompile(call')) =>
            /\ result'.status = "raise"
            /\ result'.error.msg = "p_error_in_configuration"
            /\ \A i \in 1..Len(external') : external'[i].fn \notin {"Compiler", "compile"}
            /\ fhe_circuit' = fhe_circuit
      ]_vars

\* C6, amended: such a call fails with the configuration-conflict error
\* before the compiler's compile is called, the handle left as it was; by
\* then the compiler object has been constructed and every input quantized.
C6_ConflictBeforeCompileCall ==
    [][ (pc = "idle" /\ ConflictingCompile(call')) =>
            /\ result'.status = "raise"
            /\ result'.error.msg = "p_error_in_configuration"
            /\ \A i \in 1..Len(external') : external'[i].fn # "compile"
            /\ fhe_circuit' = fhe_circuit
            /\ Len(external') = 1 + Len(call'.inputs)
            /\ external'[1].fn = "Compiler"
            /\ \A i \in 2..Len(external') : external'[i].fn = "quant"
      ]_vars

\* A conflicting compile on a module that already holds a circuit failed and
\* kept the circuit.
C6_Witness ==
    /\ CompileReturned
    /\ ConflictingCompile(call)
    /\ call.p_error # "None"
    /\ call.configuration.global_p_error # "None"
    /\ result.error.msg = "p_error_in_configuration"
    /\ fhe_circuit # 0

\* C7: compile fails, with no input quantized and no use of the compiler,
\* when the inputs differ in their number of samples or one of them has an
\* integer dtype; it fails without the compiler's compile being called when
\* the bound input quantizers do not match the inputs in number.
C7_CompileRejectsBadInputs ==
    CompileReturned =>
        /\ (/\ Len(call.inputs) >= 1
            /\ \/ \E k \in 1..Len(call.inputs) :
                      Len(call.inputs[k].data) # Len(call.inputs[1].data)
               \/ \E k \in 1..Len(call.inputs) : IsIntegerDType(call.inputs[k].dtype))
           => (result.status = "raise" /\ external = <<>>)
        /\ Len(call.inputs) # Len(input_quantizers)
           => /\ result.status = "raise"
              /\ \A i \in 1..Len(external) : external[i].fn # "compile"

\* Two float arrays of equal length and one integer array were refused
\* before anything was quantized.
C7_Witness ==
    /\ CompileReturned
    /\ Len(call.inputs) = 2
    /\ Len(input_quantizers) = 2
    /\ Len(call.inputs[1].data) = Len(call.inputs[2].data)
    /\ IsIntegerDType(call.inputs[2].dtype)
    /\ ~IsIntegerDType(call.inputs[1].dtype)
    /\ result.status = "raise"
    /\ external = <<>>

\* C8: a successful compile stores the handle the compiler returned, in
\* place of any prior handle, and returns it; no other step changes the
\* stored handle; forward_in_fhe and the report query the stored handle only.
C8_LastCompileWins ==
    [][ /\ (pc = "idle" /\ call'.op = "compile" /\ result'.status = "ok") =>
              /\ external'[Len(external')].fn = "compile"
              /\ fhe_circuit' = external'[Len(external')].ret
              /\ result'.handle = external'[Len(external')].ret
              /\ fhe_circuit' # fhe_circuit
        /\ ~(pc = "idle" /\ call'.op = "compile" /\ result'.status = "ok") =>
              fhe_circuit' = fhe_circuit
        /\ (pc = "idle" /\ call'.op \in {"forward_in_fhe", "bitwidth_and_range_report"}) =>
              \A i \in 1..Len(external') : external'[i].handle = fhe_circuit
      ]_vars

\* After a second successful compile, forward_in_fhe ran a full batch on the
\* second circuit.
C8_Witness ==
    /\ FheReturned
    /\ compiled = 2
    /\ fhe_circuit = 2
    /\ Len(external) = MaxBatch
    /\ \A i \in 1..Len(external) : external[i].handle = 2
    /\ result.status = "ok"

\* C9: set_inputs_quantization_parameters with a number of quantizers other
\* than the number of declared input names raises a TypeError that names
\* both counts and leaves input_quantizers as it was.
C9_SetInputsArity ==
    [][ (/\ pc = "idle"
         /\ call'.op = "set_inputs_quantization_parameters"
         /\ Len(call'.input_q_params) # Len(ordered_module_input_names)) =>
            /\ result'.status = "raise"
            /\ result'.error.type = "TypeError"
            /\ result'.error.msg = "arity"
            /\ result'.error.got = Len(call'.input_q_params)
            /\ result'.error.expected = Len(ordered_module_input_names)
            /\ input_quantizers' = input_quantizers
      ]_vars

\* A call with one quantizer too many failed on a module whose quantizers
\* were bound before, and they are still bound.
C9_Witness ==
    /\ pc = "returned"
    /\ call.op = "set_inputs_quantization_parameters"
    /\ Len(call.input_q_params) = Len(ordered_module_input_names) + 1
    /\ result.error.type = "TypeError"
    /\ Len(input_quantizers) = Len(ordered_module_input_names)

\* C10: forward with integral inputs whose number differs from the number of
\* declared input names fails with the arity TypeError, naming the expected
\* and the actual count, before any layer is invoked, in every module state.
C10_ForwardArityAgainstNames ==
    (/\ ForwardReturned
     /\ AllIntegral(call.qvalues)
     /\ Len(call.qvalues) # Len(ordered_module_input_names)) =>
        /\ result.status = "raise"
        /\ result.error.type = "TypeError"
        /\ result.error.msg = "arity"
        /\ result.error.got = Len(call.qvalues)
        /\ result.error.expected = Len(ordered_module_input_names)
        /\ invoked = <<>>

InitReturned == pc = "returned" /\ call.op = "__init__"

\* C11: a construction with zero or with more than one designated output
\* name raises, whatever the other constructor arguments are.
C11_NotSingleOutputFails ==
    (/\ InitReturned
     /\ call.ordered_module_output_names.given
     /\ Len(call.ordered_module_output_names.value) # 1) =>
        result.status = "raise"

ReportReturned == pc = "returned" /\ call.op = "bitwidth_and_range_report"

\* The circuit found a range and a non-negative bit-width for layer l.
HasRangeAndBitwidth(l) ==
    /\ call.answers[l].present
    /\ call.answers[l].has_bitwidth
    /\ call.answers[l].bitwidth >= 0

\* C12: bitwidth_and_range_report returns None, without raising and without
\* a query to the circuit, when no circuit is compiled; with a compiled
\* circuit it returns a non-empty mapping whenever at least one graph node
\* has both a range and a non-negative bit-width.
C12_ReportNoneOrNonEmpty ==
    ReportReturned =>
        /\ fhe_circuit = 0 => (result = ReturnedNone /\ external = <<>>)
        /\ (fhe_circuit # 0 /\ \E l \in LayerIds : HasRangeAndBitwidth(l)) =>
              /\ result.status = "ok"
              /\ ~result.is_none
              /\ Len(result.value) > 0

\* C13: with a compiled circuit the report holds a node, under its operation
\* name and with exactly the range and bit-width the circuit returned,
\* if and only if the circuit returned a range and a non-negative bit-width
\* for it; every other node is left out and nothing is raised.
C13_ReportExactlyValidNodes ==
    (ReportReturned /\ fhe_circuit # 0) =>
        /\ result.status = "ok"
        /\ \A l \in LayerIds :
              HasRangeAndBitwidth(l) <=>
                 \E k \in 1..Len(result.value) :
                    result.value[k] = [name |-> quant_layers_dict[l].op_instance_name,
                                       range |-> call.answers[l].range,
                                       bitwidth |-> call.answers[l].bitwidth]

\* The calls of a log without the name of the method called.
CallsMade(log) == [i \in 1..Len(log) |-> [handle |-> log[i].handle, args |-> log[i].args,
                                          ret |-> log[i].ret]]

\* C14: the simulate flag of forward_in_fhe only selects the circuit method:
\* with simulate every call goes to simulate, without it every call goes to
\* encrypt_run_decrypt, and the samples passed, their order and the value
\* assembled (or the error raised) are those of the same call in the other
\* mode.
C14_ModeOnlySelectsCall ==
    FheReturned =>
        LET other == ForwardInFheImpl(call.qvalues, ~call.simulate)
        IN  /\ \A i \in 1..Len(external) :
                  external[i].fn =
                     (IF call.simulate THEN "simulate" ELSE "encrypt_run_decrypt")
            /\ \A i \in 1..Len(other.external) :
                  other.external[i].fn =
                     (IF call.simulate THEN "encrypt_run_decrypt" ELSE "simulate")
            /\ CallsMade(other.external) = CallsMade(external)
            /\ other.result = result

\* A two-sample batch ran through encrypt_run_decrypt and returned.
C14_Witness ==
    /\ FheReturned
    /\ fhe_circuit # 0
    /\ ~call.simulate
    /\ result.status = "ok"
    /\ Len(external) = 2
    /\ \A i \in 1..2 : external[i].fn = "encrypt_run_decrypt"

\* C16: after a successful set_inputs_quantization_parameters the module
\* holds copies of the quantizers it was given: the copies carry the
\* parameters of the originals, no object of the module's list is an object
\* the caller holds, and a change the caller makes to one of its objects
\* leaves the module's list as it was.
C16_DeepCopiesIndependent ==
    [][ /\ (/\ pc = "idle"
            /\ call'.op = "set_inputs_quantization_parameters"
            /\ result'.status = "ok") =>
              /\ Len(input_quantizers') = Len(call'.input_q_params)
              /\ \A k \in 1..Len(input_quantizers') :
                    Params(input_quantizers'[k]) = Params(call'.input_q_params[k])
        /\ \A k \in 1..Len(input_quantizers'), i \in 1..Len(caller_quantizers') :
              input_quantizers'[k].obj # caller_quantizers'[i].obj
        /\ (pc = "idle" /\ call'.op = "caller_mutates") =>
              input_quantizers' = input_quantizers
      ]_vars

\* The caller changed a quantizer object it had bound, and the module's
\* quantizer at that position still holds the parameters it was bound with.
C16_Witness ==
    /\ pc = "returned"
    /\ call.op = "caller_mutates"
    /\ Len(input_quantizers) = Len(ordered_module_input_names)
    /\ Params(caller_quantizers[call.index]) = call.q_params
    /\ Params(input_quantizers[call.index]) # call.q_params

SetInputsSucceeds ==
    /\ pc = "idle"
    /\ call'.op = "set_inputs_quantization_parameters"
    /\ result'.status = "ok"

\* C15: the input quantizer list is empty or holds the quantizers of the
\* latest successful set_inputs_quantization_parameters call, one per
\* declared input name; the output quantizer list is the one derived at
\* construction; no other operation changes either list.
C15_QuantizerListsStable ==
    [][ /\ SetInputsSucceeds =>
              /\ Len(input_quantizers') = Len(ordered_module_input_names)
              /\ \A k \in 1..Len(input_quantizers') :
                    Params(input_quantizers'[k]) = Params(call'.input_q_params[k])
        /\ ~SetInputsSucceeds => input_quantizers' = input_quantizers
        /\ input_quantizers' = <<>>
              \/ Len(input_quantizers') = Len(ordered_module_input_names)
        /\ output_quantizers' = output_quantizers
        /\ output_quantizers' =
              SetOutputQuantizers([outputs |-> ordered_module_output_names,
                                   layers |-> quant_layers_dict])
      ]_vars

\* A compiled module with bound quantizers ran a batch through its circuit,
\* and its quantizers are still the ones bound.
C15_Witness ==
    /\ FheReturned
    /\ result.status = "ok"
    /\ Len(input_quantizers) = Len(ordered_module_input_names)
    /\ \A k \in 1..Len(input_quantizers) :
          Params(input_quantizers[k]) = Params(caller_quantizers[k])

\* compile reached the compiler's compile call.
CompileCalled ==
    /\ CompileReturned
    /\ Len(external) > 0
    /\ external[Len(external)].fn = "compile"

\* C17: the input set compile hands to the compiler, built from quantized
\* inputs of S samples, yields exactly S elements in sample order: for one
\* input, element i is sample i of the quantized input with a leading
\* dimension of 1; for k > 1 inputs it is the k-tuple of sample i of every
\* quantized input, in input order, each with a leading dimension of 1;
\* once consumed it yields nothing more.
C17_InputsetSinglePass ==
    CompileCalled =>
        LET compile_call == external[Len(external)]
            k == Len(call.inputs)
            S == Len(call.inputs[1].data)
            q_input(j) == external[j + 1].ret
        IN  /\ \A j \in 1..k : external[j + 1].fn = "quant"
            /\ Len(compile_call.args[1]) = S
            /\ \A i \in 1..S :
                  compile_call.args[1][i] =
                     (IF k = 1 THEN <<q_input(1).data[i]>>
                      ELSE [j \in 1..k |-> <<q_input(j).data[i]>>])
            /\ Consume(compile_call.args[4]).items = <<>>

\* compile succeeded on two inputs of two samples each.
C17_Witness ==
    /\ CompileCalled
    /\ result.status = "ok"
    /\ Len(call.inputs) = 2
    /\ Len(call.inputs[1].data) = 2
    /\ Len(external[Len(external)].args[1]) = 2

QuantizeReturned == pc = "returned" /\ call.op = "quantize_input"

\* C18: quantize_input with a number of arrays other than the number of
\* bound input quantizers raises a TypeError naming both counts and calls no
\* quantizer; with the matching number it calls quantizer i on value i for
\* every i and returns the results in input order, the array itself when
\* there is exactly one input.
C18_QuantizeInputArity ==
    QuantizeReturned =>
        LET n_values == Len(call.values)
        IN  /\ n_values # Len(input_quantizers) =>
                  /\ result.status = "raise"
                  /\ result.error.type = "TypeError"
                  /\ result.error.got = n_values
                  /\ result.error.expected = Len(input_quantizers)
                  /\ external = <<>>
            /\ n_values = Len(input_quantizers) =>
                  /\ Len(external) = n_values
                  /\ \A i \in 1..n_values :
                        /\ external[i].fn = "quant"
                        /\ external[i].args = <<i - 1, call.values[i]>>
                  /\ result.status = "ok"
                  /\ result.value.bare = (n_values = 1)
                  /\ Len(result.value.arrays) = n_values
                  /\ \A i \in 1..n_values :
                        result.value.arrays[i] = external[i].ret

DequantizeReturned == pc = "returned" /\ call.op = "dequantize_output"

\* The module of the scenario: a single identity operation, and one bound
\* input quantizer of 8 bits, scale 1 and zero point 0.
IdentityModule ==
    /\ quant_layers_dict = GraphIdentity.layers
    /\ Len(input_quantizers) = 1
    /\ Params(input_quantizers[1]) = [n_bits |-> 8, scale |-> 1, zero_point |-> 0]

\* No invoked layer raised or reported an input that was not quantized.
LayersQuiet == \A e \in 1..Len(invoked) : ~invoked[e].raised /\ invoked[e].faults = <<>>

\* C19: on a module of a single identity operation with one 8-bit input
\* quantizer of scale 1 and zero point 0, [1.0, 2.0, 3.0] quantizes to
\* [1, 2, 3], forward of [1, 2, 3] returns [1, 2, 3] and dequantize_output of
\* [1, 2, 3] returns [1.0, 2.0, 3.0]; on any module of a single identity
\* operation with its quantizer bound, forward returns the integer array
\* it was given.
C19_IdentityScenario ==
    /\ (/\ QuantizeReturned
        /\ IdentityModule
        /\ call.values = <<[dtype |-> "float64", data |-> <<1, 2, 3>>]>>) =>
          /\ result.status = "ok"
          /\ result.value = ArrayOrTuple(<<[dtype |-> "int64", data |-> <<1, 2, 3>>]>>)
    /\ (/\ ForwardReturned
        /\ quant_layers_dict = GraphIdentity.layers
        /\ Len(input_quantizers) = 1
        /\ Len(call.qvalues) = 1
        /\ AllIntegral(call.qvalues)
        /\ LayersQuiet) =>
          /\ result.status = "ok"
          /\ result.value = call.qvalues[1].data
    /\ (/\ DequantizeReturned
        /\ IdentityModule
        /\ call.q_values = [dtype |-> "int64", data |-> <<1, 2, 3>>]) =>
          /\ result.status = "ok"
          /\ result.value = [dtype |-> "float64", data |-> <<1, 2, 3>>]

\* forward returned [1, 2, 3] for [1, 2, 3] on the module of the scenario.
C19_Witness ==
    /\ ForwardReturned
    /\ IdentityModule
    /\ call.qvalues = <<[dtype |-> "int64", data |-> <<1, 2, 3>>]>>
    /\ result.status = "ok"
    /\ result.value = <<1, 2, 3>>

\* The tensor bound to `name` when layer i is invoked: the result of the
\* latest earlier layer stored under that name, else the module input
\* passed for that name, else the absent sentinel.
BoundTensor(name, i) ==
    IF \E j \in 1..(i - 1) : quant_layers_dict[j].out = name
    THEN LET j == CHOOSE j \in 1..(i - 1) :
                     /\ quant_layers_dict[j].out = name
                     /\ \A m \in (j + 1)..(i - 1) : quant_layers_dict[m].out # name
         IN  OpOutput(quant_layers_dict[j].op_type, invoked[j].inputs)
    ELSE IF \E p \in 1..Len(call.qvalues) :
               p <= Len(ordered_module_input_names) /\ ordered_module_input_names[p] = name
    THEN LET p == CHOOSE p \in 1..Len(call.qvalues) :
                     p <= Len(ordered_module_input_names)
                     /\ ordered_module_input_names[p] = name
         IN  QuantizedArray(call.qvalues[p].data)
    ELSE None

\* C20: a forward call that returns has invoked every layer exactly once, in
\* the insertion order of quant_layers_dict; each layer received, for each
\* of its input names in order, the tensor bound to the name by a module
\* input or an earlier layer's result, and the absent sentinel when the name
\* was bound to neither; the value returned is the integer codes of the
\* tensor stored under the single output name.
C20_ForwardInInsertionOrder ==
    (ForwardReturned /\ result.status = "ok") =>
        /\ Len(invoked) = NLayers
        /\ \A i \in 1..NLayers :
              /\ invoked[i].layer = i
              /\ Len(invoked[i].inputs) = Len(quant_layers_dict[i].ins)
              /\ \A k \in 1..Len(quant_layers_dict[i].ins) :
                    invoked[i].inputs[k] = BoundTensor(quant_layers_dict[i].ins[k], i)
        /\ Len(ordered_module_output_names) = 1
        /\ result.value = BoundTensor(ordered_module_output_names[1], NLayers + 1).qvalues

\* forward returned on the two-layer graph whose first layer names an input
\* that nothing binds.
C20_Witness ==
    /\ ForwardReturned
    /\ result.status = "ok"
    /\ quant_layers_dict = GraphClip.layers
    /\ Len(invoked) = 2
    /\ invoked[1].inputs[2] = None
    /\ invoked[2].inputs[1] = QuantizedArray(call.qvalues[1].data)

\* A call that runs the layers has ended.
ExecuteReturned == pc = "returned" /\ call.op \in {"forward", "forward_and_dequant"}

\* C21: after a forward call has ended, by return or by any failure
\* including a layer raising, no layer of the graph holds an error_tracker
\* list.
C21_ErrorTrackerCleared ==
    ExecuteReturned => \A l \in LayerIds : ~error_tracker[l]

CompileSucceeds == pc = "idle" /\ call'.op = "compile" /\ result'.status = "ok"

\* C22: fhe_circuit is None until the first successful compile; only a
\* successful compile changes it, and it stores a circuit; a compile that
\* fails and every other operation leave it as it was, so a circuit once
\* held is never lost.
C22_CircuitOnlyByCompile ==
    [][ /\ compiled' = 0 => fhe_circuit' = 0
        /\ CompileSucceeds => (fhe_circuit' # 0 /\ fhe_circuit' = result'.handle)
        /\ ~CompileSucceeds => fhe_circuit' = fhe_circuit
        /\ fhe_circuit # 0 => fhe_circuit' # 0
      ]_vars

\* The compiler raised in a compile call on a module that holds a circuit,
\* and the module still holds it.
C22_Witness ==
    /\ CompileReturned
    /\ result.status = "raise"
    /\ result.error.type = "CompilerError"
    /\ compiled > 0
    /\ fhe_circuit = compiled

====
